---- MODULE Spec2Model ----
(***************************************************************************)
(* A model of the gocurrent stream operators: the RunnerBase lifecycle,    *)
(* the Mapper/Pipe worker, the FanIn worker with its forwarding links and  *)
(* the Reducer.  Every goroutine is a process with a program counter; Go   *)
(* channels are modelled with their buffer, their closed flag and the nil  *)
(* value of the field that holds them.                                     *)
(*                                                                         *)
(* One operator is under test in a behaviour; `scenario` says which.       *)
(***************************************************************************)
EXTENDS Integers, Sequences, FiniteSets, Bags, TLC

\* ------------------------------------------------------------------ bounds
NumChans == 2       \* input channels a caller may attach to the FanIn
MaxMsgs  == 2       \* values a producer sends on one input channel
MaxCalls == 3       \* API calls of the operator's caller in one run, an Add
                    \* counting once for each of its inputs
MaxTicks == 2       \* firings of the Reducer's ticker in one run
MaxArgs  == 2       \* inputs given to one call of FanIn.Add
MaxFlushAt == 2     \* largest batch length at which a CollectFunc asks for a flush
MaxReads == 3       \* calls of the Reader's Read function in one run
MaxOuts == 2        \* outputs registered with a FanOut
MaxComps == 2       \* components added to a Block

\* make(chan C, 1): the capacity of RunnerBase.controlChan
CtlCap == 1

Chans        == 1..NumChans            \* FanIn input channels; link c forwards channel c
FanInId      == NumChans + 1           \* the FanIn's RunnerBase
StandaloneId == NumChans + 2           \* a Mapper made by NewMapper, with its own input
AllMappers   == Chans \cup {StandaloneId}
ReaderId     == NumChans + 3           \* the Reader's RunnerBase
Runners      == AllMappers \cup {FanInId, ReaderId}
ReducerId    == NumChans + 4           \* the Reducer (it has no RunnerBase)
Operators    == Runners \cup {ReducerId}
Vals         == 0..(MaxMsgs - 1)
Callers      == {"client", "worker", "other", "callback"}   \* contexts that call RunnerBase.Stop
NilChan      == 0                      \* a nil channel given to FanIn.Add

VARIABLES
    scenario,   \* "mapper" | "fanin" | "reducer" | "reader" | "fanout" | "block"
    rb,         \* rb[r]: the RunnerBase fields of runner r
    pc,         \* pc[r]: where the worker goroutine of runner r is
    mp,         \* mp[m]: locals of Mapper m's worker (outval, stop) and why it returned
    MapFunc,    \* the standalone Mapper's MapFunc: value -> (skip, stop) flags
    inch,       \* inch[c]: input channel c (unbuffered): values sent so far, closed
    fi,         \* the FanIn's own fields and its worker's locals
    out,        \* out[m]: the values the consumer received from Mapper m's output, in order
    call,       \* call[k]: the RunnerBase.Stop() call in progress in context k
    client,     \* the goroutine that calls the operator's API
    rd,         \* the Reducer's fields, its worker's position and the batches it emitted
    reader,     \* the Reader's channels, its reading goroutine and what its consumers got
    fo,         \* the FanOut's output registrations, its worker and what each output got
    block,      \* the Block: its components, its started flag, what Stop() did
    hist        \* history: panics, callback calls, closes done by operator code

vars == <<scenario, rb, pc, mp, MapFunc, inch, fi, out, call, client, rd, reader, fo, block, hist>>

\* ------------------------------------------------------- RunnerBase (pure)
\* NewRunnerBase: a fresh control channel of capacity 1, not running, wg at 0
NewRunnerBase == [ctl |-> "open", buf |-> <<>>, isRunning |-> FALSE, wg |-> 0]

\* a runner that was never constructed
NoRunner == [ctl |-> "nil", buf |-> <<>>, isRunning |-> FALSE, wg |-> 0]

\* RunnerBase.start: isRunning = true; wg.Add(1)
RunnerBaseStart(r) == [r EXCEPT !.isRunning = TRUE, !.wg = @ + 1]

\* RunnerBase.IsRunning
IsRunning(r) == r.isRunning

\* the early return of RunnerBase.Stop: if !r.IsRunning() && r.controlChan != nil
StopReturnsEarly(r) == ~IsRunning(r) /\ r.ctl # "nil"

\* a send on the control channel completes: the channel is open and has room
CtlSendReady(r) == r.ctl = "open" /\ Len(r.buf) < CtlCap

\* a send on the control channel panics: the channel is closed
CtlSendPanics(r) == r.ctl = "closed"

\* a send on the control channel blocks for ever: the field holds nil
CtlSendStuck(r) == r.ctl = "nil"

\* faulty variant: the pipe's function asks to skip every value
idMapperFuncSkips(v) == [out |-> v, skip |-> TRUE, stop |-> FALSE]

\* faulty variant: the pipe's function hands on another value than its input
idMapperFuncMirrors(v) == [out |-> (MaxMsgs - 1) - v, skip |-> FALSE, stop |-> FALSE]

\* idMapperFunc: output = input, skip = false, stop = false
idMapperFunc(v) == [out |-> v, skip |-> FALSE, stop |-> FALSE]

\* the MapFunc of Mapper m on value v: links are pipes, the standalone Mapper
\* doubles the value and takes its flags from MapFunc
ApplyMapFunc(m, v) ==
    IF m = StandaloneId
    THEN [out |-> 2 * v, skip |-> MapFunc[v].skip, stop |-> MapFunc[v].stop]
    ELSE idMapperFunc(v)

\* an unrecovered panic ends the program: no goroutine takes another step
Alive == ~hist.panicked

NoCall == [pc |-> "idle", target |-> FanInId]

StopCmd        == [name |-> "stop", ch |-> 0]
AddCmd(c)      == [name |-> "add", ch |-> c]
RemoveCmd(c)   == [name |-> "remove", ch |-> c]

\* the runner the client goroutine drives in this scenario
ClientTarget ==
    IF scenario = "mapper" THEN StandaloneId
    ELSE IF scenario = "reader" THEN ReaderId ELSE FanInId

\* the input channels that exist in this scenario
LiveChans == IF scenario = "mapper" THEN {StandaloneId}
             ELSE IF scenario = "fanin" THEN Chans ELSE {}

\* ---------------------------------------------------------------- Reducer
\* NewReducer(opts...): selfOwnIn and selfOwnOut are true unless WithInputChan
\* or WithOutputChan gave a channel; start() did wg.Add(1) and started the
\* worker.  CollectFunc and ReduceFunc are assigned by the caller (or by
\* NewIDReducer) after NewReducer returned.  flushAt is the batch length at
\* which the caller's CollectFunc asks for a flush (0: never, as NewIDReducer).
\* events is the sequence of values the worker received so far and tickAt
\* their number at each firing of the ticker; prod tells that a producer
\* goroutine is blocked in a send on the input.  cjoined is joinedEvents of a
\* Flush() running in the caller's goroutine, manual the number of such calls
\* and outBy the goroutine that sent each emitted batch.
NewReducer(ownIn, ownOut, flushAt) ==
    [selfOwnIn |-> ownIn, selfOwnOut |-> ownOut, flushAt |-> flushAt,
     inState |-> "open", inNil |-> FALSE, outState |-> "open",
     funcs |-> FALSE, pending |-> <<>>, joined |-> <<>>, out |-> <<>>,
     pc |-> "select", wg |-> 1, ticks |-> 0, recvd |-> 0,
     events |-> <<>>, tickAt |-> <<>>,
     cjoined |-> <<>>, manual |-> 0, outBy |-> <<>>, prod |-> FALSE]

NoReducer ==
    [selfOwnIn |-> FALSE, selfOwnOut |-> FALSE, flushAt |-> 0,
     inState |-> "open", inNil |-> TRUE, outState |-> "open",
     funcs |-> FALSE, pending |-> <<>>, joined |-> <<>>, out |-> <<>>,
     pc |-> "none", wg |-> 0, ticks |-> 0, recvd |-> 0,
     events |-> <<>>, tickAt |-> <<>>,
     cjoined |-> <<>>, manual |-> 0, outBy |-> <<>>, prod |-> FALSE]

\* faulty variant: the flush flag of CollectFunc is not looked at
ShouldFlushNever(f) == FALSE

\* if shouldFlush { fo.Flush() }
ShouldFlush(f) == f

\* CollectFunc of NewIDReducer, or one that asks for a flush at length flushAt:
\* the new collection and the flush flag
CollectFunc(input, collection, flushAt) ==
    [coll |-> Append(collection, input),
     flush |-> flushAt > 0 /\ Len(collection) + 1 >= flushAt]

\* ReduceFunc = IDFunc
ReduceFunc(collection) == collection

\* Reducer.IsRunning: r.inputChan != nil
ReducerIsRunning(r) == ~r.inNil

\* ----------------------------------------------------------------- Reader
\* what a call of the Read function returns: a value with a nil error, a
\* net.Error with Timeout() true, net.ErrClosed, or any other error
ReadErrors == {"nil", "timeout", "closed", "other"}

\* NewReader(read, opts...): msgChannel unbuffered, closedChan of capacity 1,
\* start() has started the RunnerBase and the two goroutines.  stopSel tells
\* the two Reader.start of the sources apart: true when the reading goroutine
\* watches stopReading (block.go), false when it does not (part_005).
\* results is the error of each Read so far, out the Messages the consumer of
\* OutputChan() received and closedRecv what a receiver on ClosedChan() got.
NewReader(stopSel) ==
    [stopSel |-> stopSel, ipc |-> "check", err |-> "nil", stopReading |-> FALSE,
     msgState |-> "open", msgNil |-> FALSE,
     closedState |-> "open", closedBuf |-> <<>>,
     results |-> <<>>, out |-> <<>>, closedRecv |-> <<>>]

NoReader ==
    [stopSel |-> FALSE, ipc |-> "none", err |-> "nil", stopReading |-> FALSE,
     msgState |-> "open", msgNil |-> TRUE,
     closedState |-> "open", closedBuf |-> <<>>,
     results |-> <<>>, out |-> <<>>, closedRecv |-> <<>>]

\* nerr, ok := err.(net.Error); if ok { timedOut = nerr.Timeout() }
TimedOut(err) == err = "timeout"

\* if rc.msgChannel != nil && !timedOut && !errors.Is(err, net.ErrClosed)
EmitsMessage(r, err) == ~r.msgNil /\ ~TimedOut(err) /\ err # "closed"

\* if err != nil && !timedOut { rc.closedChan <- err; break }
EndsReading(err) == err # "nil" /\ ~TimedOut(err)

\* where the reading goroutine goes after the Message was sent or left out
AfterMessage(err) == IF EndsReading(err) THEN "sendErr" ELSE "check"

\* ----------------------------------------------------------------- FanOut
\* The FanOut's worker, after the documented behaviour of the operator (its
\* implementation is in no source file read here): an ordered list of output
\* registrations {channel, filter}, a worker that receives each input value
\* once and, for every registered output in turn, applies that output's
\* filter and sends what the filter yields on that output.
\* The filters of the model: nil (no filter), one that lets even values
\* through unchanged and suppresses the others, one that doubles every value.
Filters == {"nil", "evens", "double"}

Suppress == -1      \* the nil a filter returns for a value it suppresses

\* the registrations after k calls of New(filter): one filter for each output
Registries == UNION {[1..k -> Filters] : k \in 1..MaxOuts}

NewFanOut(reg) ==
    [outs |-> reg, pc |-> "recv", val |-> 0, idx |-> 0, sent |-> 0,
     got |-> [i \in 1..Len(reg) |-> <<>>]]

NoFanOut ==
    [outs |-> <<>>, pc |-> "none", val |-> 0, idx |-> 0, sent |-> 0,
     got |-> <<>>]

\* faulty variant: the filter is not called, the value goes out as it came
ApplyFilterIgnored(f, v) == v

\* what filter f yields for value v: the payload to deliver, or Suppress
ApplyFilter(f, v) ==
    IF f = "nil" THEN v
    ELSE IF f = "double" THEN 2 * v
    ELSE IF v % 2 = 0 THEN v ELSE Suppress

\* faulty variant: the worker serves every second output only
NextOutputSkips(i) == i + 2

\* the worker goes through the registered outputs one after the other
NextOutput(i) == i + 1

\* ------------------------------------------------------------------ Block
\* NewBlock(name): no component, started false (no statement of the source
\* sets it to true).  A component is modelled by whether it is running and
\* whether its Stop() returns an error; stopped is the order in which
\* Block.Stop() stopped components and ret what its last call returned.
NewBlock == [components |-> <<>>, started |-> FALSE, stopped |-> <<>>, ret |-> "none"]

\* Block.Add: b.components = append(b.components, component)
BlockAdd(b, failing) ==
    [b EXCEPT !.components = Append(@, [running |-> TRUE, failing |-> failing])]

\* for i := len(b.components) - 1; i >= 0; i--: b.components[i].Stop(), and
\* return at the first error.  The block after the loop ran from index i down.
RECURSIVE StopFrom(_, _)
StopFrom(b, i) ==
    IF i = 0 THEN [b EXCEPT !.started = FALSE, !.ret = "nil"]
    ELSE IF b.components[i].failing
    THEN [b EXCEPT !.stopped = Append(@, i), !.ret = "err"]
    ELSE StopFrom([b EXCEPT !.components[i].running = FALSE,
                            !.stopped = Append(@, i)], i - 1)

\* if !b.started { return nil }
BlockStopReturnsEarly(b) == ~b.started

\* Block.IsRunning: true if any component is running
BlockIsRunning(b) == \E i \in DOMAIN b.components : b.components[i].running

\* ------------------------------------------------------------------- Init
\* The state right after NewMapper(input, output, f) or NewFanIn(outChan)
\* returned: the RunnerBase is started and the worker goroutine is at the
\* top of its loop.  The caller made the input channels; nothing is sent yet.
InitRunner(s, r) ==
    IF \/ s = "mapper" /\ r = StandaloneId
       \/ s = "fanin" /\ r = FanInId
       \/ s = "reader" /\ r = ReaderId
    THEN RunnerBaseStart(NewRunnerBase) ELSE NoRunner

InitPc(s, r) ==
    IF s = "mapper" /\ r = StandaloneId THEN "select"
    ELSE IF s = "fanin" /\ r = FanInId THEN "recv"
    ELSE IF s = "reader" /\ r = ReaderId THEN "wait" ELSE "none"

IdFlags == [v \in Vals |-> [skip |-> FALSE, stop |-> FALSE]]

Init ==
    /\ scenario \in {"mapper", "fanin", "reducer", "reader", "fanout", "block"}
    /\ rb = [r \in Runners |-> InitRunner(scenario, r)]
    /\ pc = [r \in Runners |-> InitPc(scenario, r)]
    /\ mp = [m \in AllMappers |-> [val |-> 0, stop |-> FALSE, why |-> "none"]]
    /\ MapFunc \in IF scenario = "mapper"
                   THEN [Vals -> [skip : BOOLEAN, stop : BOOLEAN]]
                   ELSE {IdFlags}
    /\ inch = [c \in AllMappers |-> [sent |-> 0, closed |-> FALSE]]
    /\ fi \in IF scenario = "fanin"
              THEN {f \in {[inputs |-> <<>>, selfOwnOut |-> o, outState |-> "open",
                           outNil |-> FALSE, cbSet |-> b, cbStops |-> s,
                           idx |-> 0, rmch |-> 0]
                          : o \in BOOLEAN, b \in BOOLEAN, s \in BOOLEAN} :
                       f.cbStops => (f.cbSet /\ f.selfOwnOut)}
              ELSE {[inputs |-> <<>>, selfOwnOut |-> FALSE, outState |-> "open",
                     outNil |-> TRUE, cbSet |-> FALSE, cbStops |-> FALSE,
                     idx |-> 0, rmch |-> 0]}
    /\ out = [m \in AllMappers |-> <<>>]
    /\ rd \in IF scenario = "reducer"
              THEN {NewReducer(i, o, n) : i \in BOOLEAN, o \in BOOLEAN, n \in 0..MaxFlushAt}
              ELSE {NoReducer}
    /\ reader \in IF scenario = "reader"
                  THEN {NewReader(v) : v \in BOOLEAN}
                  ELSE {NoReader}
    /\ fo \in IF scenario = "fanout"
              THEN {NewFanOut(reg) : reg \in Registries}
              ELSE {NoFanOut}
    /\ block = NewBlock
    /\ call = [k \in Callers |-> NoCall]
    /\ client = [pc |-> "idle", cmd |-> StopCmd, calls |-> 0, stops |-> 0, added |-> {},
                 closedAtStop |-> FALSE, runningAtStop |-> FALSE,
                 args |-> <<>>, todo |-> <<>>]
    /\ hist = [panicked |-> FALSE,
               cb |-> [c \in Chans |-> 0],
               borrowedCloses |-> 0,
               ownedCloses |-> 0,
               attached |-> {},
               removed |-> [c \in Chans |-> -1],
               outAtRemove |-> -1,
               listAccess |-> {},
               pendingAccess |-> {},
               closedChan |-> [o \in Operators |-> 0],
               onDone |-> [m \in AllMappers |-> 0]]

\* ------------------------------------------------------------- producers
\* the producer closes input channel c
ProducerClose(c) ==
    /\ Alive
    /\ c \in LiveChans
    /\ ~inch[c].closed
    /\ inch' = [inch EXCEPT ![c].closed = TRUE]
    /\ UNCHANGED <<scenario, block, fo, reader, rd, rb, pc, mp, MapFunc, fi, out, call, client, hist>>

\* ---------------------------------------------------------- Mapper worker
\* faulty variant: the select is also taken while the worker is in its send
MapperAtSelectOrSend(m) == pc[m] \in {"select", "send"}

\* for { select { ... } }: the worker takes a stop value or an input only at
\* its select, which it reaches again after m.output <- outval has completed
MapperAtSelect(m) == pc[m] = "select"

\* select case <-m.controlChan: return (the deferred cleanup runs next)
MapperRecvStop(m) ==
    /\ Alive
    /\ MapperAtSelect(m)
    /\ rb[m].ctl = "open" /\ rb[m].buf # <<>>
    /\ rb' = [rb EXCEPT ![m].buf = Tail(@)]
    /\ pc' = [pc EXCEPT ![m] = "close"]
    /\ mp' = [mp EXCEPT ![m].why = "stop"]
    /\ UNCHANGED <<scenario, block, fo, reader, rd, MapFunc, inch, fi, out, call, client, hist>>

\* faulty variant: the test of the skip flag is inverted
AfterMapFuncSendsSkipped(r) ==
    IF r.skip THEN "send" ELSE IF r.stop THEN "close" ELSE "select"

\* faulty variant: the worker looks at stop before it sends the value
AfterMapFuncStopsFirst(r) ==
    IF r.stop THEN "close" ELSE IF ~r.skip THEN "send" ELSE "select"

\* what the worker does with a received value: send it, return, or loop
AfterMapFunc(r) == IF ~r.skip THEN "send" ELSE IF r.stop THEN "close" ELSE "select"

\* the producer of input channel c is ready to hand over its next value
\* (the channel is unbuffered: a send completes when the worker receives)
ProducerReady(c) == ~inch[c].closed /\ inch[c].sent < MaxMsgs

\* select case value, ok := <-m.input with ok: the producer's next value
\* (values are 0, 1, ... in send order) is received and MapFunc applied
MapperRecvValue(m) ==
    /\ Alive
    /\ MapperAtSelect(m)
    /\ ProducerReady(m)
    /\ LET r == ApplyMapFunc(m, inch[m].sent) IN
         /\ pc' = [pc EXCEPT ![m] = AfterMapFunc(r)]
         /\ mp' = [mp EXCEPT ![m].val = r.out, ![m].stop = r.stop,
                             ![m].why = IF AfterMapFunc(r) = "close" THEN "mapstop" ELSE @]
    /\ inch' = [inch EXCEPT ![m].sent = @ + 1]
    /\ UNCHANGED <<scenario, block, fo, reader, rd, rb, MapFunc, fi, out, call, client, hist>>

\* select case value, ok := <-m.input with !ok: the input is closed
MapperRecvClosed(m) ==
    /\ Alive
    /\ MapperAtSelect(m)
    /\ inch[m].closed
    /\ pc' = [pc EXCEPT ![m] = "close"]
    /\ mp' = [mp EXCEPT ![m].why = "closed"]
    /\ UNCHANGED <<scenario, block, fo, reader, rd, rb, MapFunc, inch, fi, out, call, client, hist>>

\* the output channel of Mapper m is closed (a link writes to the FanIn's outChan)
OutputClosed(m) == m \in Chans /\ fi.outState = "closed"

\* m.output <- outval, taken by the consumer; then return if stop
MapperSend(m) ==
    /\ Alive
    /\ pc[m] = "send"
    /\ IF OutputClosed(m)
       THEN /\ hist' = [hist EXCEPT !.panicked = TRUE]
            /\ UNCHANGED <<out, pc, mp>>
       ELSE /\ out' = [out EXCEPT ![m] = Append(@, mp[m].val)]
            /\ pc' = [pc EXCEPT ![m] = IF mp[m].stop THEN "close" ELSE "select"]
            /\ mp' = [mp EXCEPT ![m].why = IF mp[m].stop THEN "mapstop" ELSE @]
            /\ UNCHANGED hist
    /\ UNCHANGED <<scenario, block, fo, reader, rd, rb, MapFunc, inch, fi, call, client>>

\* Mapper.start defers m.cleanup(), which is RunnerBase.cleanup, and nothing
\* else: no statement of the worker calls m.OnDone, so hist.onDone[m], the
\* number of calls of Mapper m's OnDone, is changed by no step.

\* ------------------------------------------------- RunnerBase.cleanup steps
\* close(r.controlChan)
CleanupClose(r) ==
    /\ Alive
    /\ pc[r] = "close"
    /\ rb' = [rb EXCEPT ![r].ctl = "closed"]
    /\ pc' = [pc EXCEPT ![r] = "nil"]
    /\ UNCHANGED <<scenario, block, fo, reader, rd, mp, MapFunc, inch, fi, out, call, client, hist>>

\* faulty variant: the completion channel is left open
ClosedChanNeverClosed(n) == n

\* the ClosedChan() of a Mapper, a FanIn or a Reducer: closed by the worker
\* when it terminates, with no error sent on it before (n counts the closes)
ClosedChanAtExit(n) == n + 1

\* r.controlChan = nil; r.wg.Done(); the goroutine ends
CleanupDone(r) ==
    /\ Alive
    /\ pc[r] = "nil"
    /\ rb' = [rb EXCEPT ![r].ctl = "nil", ![r].buf = <<>>, ![r].wg = @ - 1]
    /\ pc' = [pc EXCEPT ![r] = "exited"]
    /\ hist' = [hist EXCEPT !.closedChan[r] = IF r = ReaderId THEN @ ELSE ClosedChanAtExit(@)]
    /\ UNCHANGED <<scenario, block, fo, reader, rd, mp, MapFunc, inch, fi, out, call, client>>

\* ------------------------------------------------- RunnerBase.Stop, by steps
\* A call of Stop() on runner t begins with
\*   if !r.IsRunning() && r.controlChan != nil { return nil }
\* and either returns at once or goes on to the send
StopCall(t) == [pc |-> IF StopReturnsEarly(rb[t]) THEN "ret" ELSE "send", target |-> t]

\* r.controlChan <- r.stopVal: completes when the channel has room, panics when
\* the channel is closed, and is never enabled while the field holds nil
StopSend(k) ==
    /\ Alive
    /\ call[k].pc = "send"
    /\ ~CtlSendStuck(rb[call[k].target])
    /\ IF CtlSendPanics(rb[call[k].target])
       THEN /\ hist' = [hist EXCEPT !.panicked = TRUE]
            /\ UNCHANGED <<rb, call>>
       ELSE /\ CtlSendReady(rb[call[k].target])
            /\ rb' = [rb EXCEPT ![call[k].target].buf = Append(@, StopCmd)]
            /\ call' = [call EXCEPT ![k].pc = "flag"]
            /\ UNCHANGED hist
    /\ UNCHANGED <<scenario, block, fo, reader, rd, pc, mp, MapFunc, inch, fi, out, client>>

\* r.isRunning = false
StopSetFlag(k) ==
    /\ Alive
    /\ call[k].pc = "flag"
    /\ rb' = [rb EXCEPT ![call[k].target].isRunning = FALSE]
    /\ call' = [call EXCEPT ![k].pc = "wait"]
    /\ UNCHANGED <<scenario, block, fo, reader, rd, pc, mp, MapFunc, inch, fi, out, client, hist>>

\* faulty variant: Stop() does not wait for the worker
WgWaitReturnsAtOnce(r) == TRUE

\* r.wg.Wait() returns once the counter is zero
WgWaitReturns(r) == r.wg = 0

\* r.wg.Wait(); return nil
StopWait(k) ==
    /\ Alive
    /\ call[k].pc = "wait"
    /\ WgWaitReturns(rb[call[k].target])
    /\ call' = [call EXCEPT ![k].pc = "ret"]
    /\ UNCHANGED <<scenario, block, fo, reader, rd, rb, pc, mp, MapFunc, inch, fi, out, client, hist>>

\* ------------------------------------------------------------ FanIn worker
\* the command at the head of the FanIn's control channel
FanInHasCmd(name) ==
    /\ pc[FanInId] = "recv"
    /\ rb[FanInId].ctl = "open"
    /\ rb[FanInId].buf # <<>>
    /\ Head(rb[FanInId].buf).name = name

\* cmd.Name == "add": fi.wg.Add(1); NewPipe(cmd.AddedChannel, fi.outChan) starts
\* the link's RunnerBase and worker; the link is appended to fi.inputs
FanInRecvAdd ==
    /\ Alive
    /\ FanInHasCmd("add")
    /\ LET c == Head(rb[FanInId].buf).ch IN
         /\ rb' = [rb EXCEPT ![FanInId].buf = Tail(@), ![FanInId].wg = @ + 1,
                             ![c] = RunnerBaseStart(NewRunnerBase)]
         /\ pc' = [pc EXCEPT ![c] = "select"]
         /\ fi' = [fi EXCEPT !.inputs = Append(@, c)]
         /\ hist' = [hist EXCEPT !.attached = @ \cup {c},
                                 !.listAccess = @ \cup {"worker"}]
    /\ UNCHANGED <<scenario, block, fo, reader, rd, mp, MapFunc, inch, out, call, client>>

\* fi.remove: the index of the first link whose input is inchan, 0 when none
IndexOfInput(inputs, inchan) ==
    IF \E i \in 1..Len(inputs) : inputs[i] = inchan
    THEN CHOOSE i \in 1..Len(inputs) :
            /\ inputs[i] = inchan
            /\ \A j \in 1..(i - 1) : inputs[j] # inchan
    ELSE 0

\* cmd.Name == "remove": fi.remove(cmd.RemovedChannel); removeAt(index)
\* starts with fi.inputs[index].Stop()
FanInRecvRemove ==
    /\ Alive
    /\ FanInHasCmd("remove")
    /\ LET index == IndexOfInput(fi.inputs, Head(rb[FanInId].buf).ch) IN
         IF index = 0
         THEN UNCHANGED <<pc, fi, call>>
         ELSE /\ pc' = [pc EXCEPT ![FanInId] = "rmStop"]
              /\ fi' = [fi EXCEPT !.idx = index]
              /\ call' = [call EXCEPT !["worker"] = StopCall(fi.inputs[index])]
    /\ rb' = [rb EXCEPT ![FanInId].buf = Tail(@)]
    /\ hist' = [hist EXCEPT !.listAccess = @ \cup {"worker"}]
    /\ UNCHANGED <<scenario, block, fo, reader, rd, mp, MapFunc, inch, out, client>>

\* faulty variant: removeAt drops the last link of the list, whatever the index
RemoveAtListDropsLast(inputs, index) == SubSeq(inputs, 1, Len(inputs) - 1)

\* fi.inputs[index] = fi.inputs[len-1]; fi.inputs = fi.inputs[:len-1]
RemoveAtList(inputs, index) ==
    [i \in 1..(Len(inputs) - 1) |->
        IF i = index THEN inputs[Len(inputs)] ELSE inputs[i]]

\* how many values the consumer received from the FanIn's output so far
TotalDelivered == Cardinality({p \in Chans \X (1..MaxMsgs) : p[2] <= Len(out[p[1]])})

\* removeAt after the link's Stop() returned: drop the link from the list,
\* call OnChannelRemoved if it is set, fi.wg.Done().  A callback that calls
\* fi.Stop() (fi.cbStops) runs that call in the worker's goroutine, and
\* fi.wg.Done() follows when the callback has returned.
FanInRemoveFinish ==
    /\ Alive
    /\ pc[FanInId] = "rmStop"
    /\ call["worker"].pc = "ret"
    /\ LET inchan == fi.inputs[fi.idx] IN
         /\ fi' = [fi EXCEPT !.inputs = RemoveAtList(@, fi.idx), !.idx = 0]
         /\ hist' = [hist EXCEPT
                       !.cb[inchan] = IF fi.cbSet THEN @ + 1 ELSE @,
                       !.attached = @ \ {inchan},
                       !.removed[inchan] = inch[inchan].sent,
                       !.outAtRemove = TotalDelivered,
                       !.listAccess = @ \cup {"worker"}]
    /\ IF fi.cbStops
       THEN /\ pc' = [pc EXCEPT ![FanInId] = "cb"]
            /\ call' = [call EXCEPT !["worker"] = NoCall,
                                    !["callback"] = StopCall(FanInId)]
            /\ UNCHANGED rb
       ELSE /\ rb' = [rb EXCEPT ![FanInId].wg = @ - 1]
            /\ pc' = [pc EXCEPT ![FanInId] = "recv"]
            /\ call' = [call EXCEPT !["worker"] = NoCall]
    /\ UNCHANGED <<scenario, block, fo, reader, rd, mp, MapFunc, inch, out, client>>

\* removeAt: the callback has returned; fi.wg.Done() and back to the loop
FanInCallbackReturn ==
    /\ Alive
    /\ pc[FanInId] = "cb"
    /\ call["callback"].pc = "ret"
    /\ rb' = [rb EXCEPT ![FanInId].wg = @ - 1]
    /\ pc' = [pc EXCEPT ![FanInId] = "recv"]
    /\ call' = [call EXCEPT !["callback"] = NoCall]
    /\ UNCHANGED <<scenario, block, fo, reader, rd, fi, mp, MapFunc, inch, out, client, hist>>

\* cmd.Name == "stop": return; the deferred fi.cleanup() starts its loop
FanInRecvStop ==
    /\ Alive
    /\ FanInHasCmd("stop")
    /\ rb' = [rb EXCEPT ![FanInId].buf = Tail(@)]
    /\ pc' = [pc EXCEPT ![FanInId] = "clLoop"]
    /\ fi' = [fi EXCEPT !.idx = 1]
    /\ UNCHANGED <<scenario, block, fo, reader, rd, mp, MapFunc, inch, out, call, client, hist>>

\* cleanup: for _, input := range fi.inputs { input.Stop() ...
FanInCleanupNext ==
    /\ Alive
    /\ pc[FanInId] = "clLoop"
    /\ IF fi.idx <= Len(fi.inputs)
       THEN /\ call' = [call EXCEPT !["worker"] = StopCall(fi.inputs[fi.idx])]
            /\ pc' = [pc EXCEPT ![FanInId] = "clStop"]
       ELSE /\ pc' = [pc EXCEPT ![FanInId] = "clOut"]
            /\ UNCHANGED call
    /\ hist' = [hist EXCEPT !.listAccess = @ \cup {"worker"}]
    /\ UNCHANGED <<scenario, block, fo, reader, rd, rb, mp, MapFunc, inch, fi, out, client>>

\* cleanup: ... fi.wg.Done() }, after the link's Stop() returned
FanInCleanupLinkDone ==
    /\ Alive
    /\ pc[FanInId] = "clStop"
    /\ call["worker"].pc = "ret"
    /\ rb' = [rb EXCEPT ![FanInId].wg = @ - 1]
    /\ fi' = [fi EXCEPT !.idx = @ + 1]
    /\ pc' = [pc EXCEPT ![FanInId] = "clLoop"]
    /\ call' = [call EXCEPT !["worker"] = NoCall]
    /\ UNCHANGED <<scenario, block, fo, reader, rd, mp, MapFunc, inch, out, client, hist>>

\* faulty variant: cleanup closes the output channel whoever owns it
FanInClosesOutAlways(f) == TRUE

\* faulty variant: cleanup never closes the output channel
FanInClosesOutNever(f) == FALSE

\* cleanup: if fi.selfOwnOut { close(fi.outChan) }
FanInClosesOut(f) == f.selfOwnOut

\* cleanup: fi.inputs = nil; close the output if owned; fi.outChan = nil;
\* then RunnerBase.cleanup
FanInCleanupOut ==
    /\ Alive
    /\ pc[FanInId] = "clOut"
    /\ fi' = [fi EXCEPT !.inputs = <<>>, !.idx = 0, !.outNil = TRUE,
                        !.outState = IF FanInClosesOut(fi) THEN "closed" ELSE @]
    /\ hist' = [hist EXCEPT
                  !.ownedCloses = IF FanInClosesOut(fi) /\ fi.selfOwnOut THEN @ + 1 ELSE @,
                  !.borrowedCloses = IF FanInClosesOut(fi) /\ ~fi.selfOwnOut THEN @ + 1 ELSE @,
                  !.listAccess = @ \cup {"worker"}]
    /\ pc' = [pc EXCEPT ![FanInId] = "close"]
    /\ UNCHANGED <<scenario, block, fo, reader, rd, rb, mp, MapFunc, inch, out, call, client>>

\* ------------------------------------------------------ the caller (client)
\* the argument lists of fi.Add(inputs...): channels not attached before, each
\* at most once, and possibly nil entries
AddArgs ==
    {a \in UNION {[1..n -> Chans \cup {NilChan}] : n \in 1..MaxArgs} :
        \A i, j \in 1..Len(a) : (i # j /\ a[i] # NilChan) => a[i] # a[j]}

\* fi.Add(inputs...): the caller starts the loop over the inputs
ClientAdd(a) ==
    /\ Alive
    /\ scenario = "fanin"
    /\ client.pc = "idle"
    /\ client.calls + Len(a) <= MaxCalls
    /\ \A i \in 1..Len(a) : a[i] \notin client.added
    /\ client' = [client EXCEPT !.pc = "add", !.args = a, !.todo = a,
                                !.calls = @ + Len(a)]
    /\ UNCHANGED <<scenario, block, fo, reader, rd, rb, pc, mp, MapFunc, inch, fi, out, call, hist>>

\* faulty variant: Add does not look for nil inputs
AddNeverPanics(input) == FALSE

\* Add: if input == nil { panic("Cannot add nil channels") }
AddPanics(input) == input = NilChan

\* Add, one turn of the loop: panic on a nil input, else
\* fi.controlChan <- fanInCmd{Name: "add", AddedChannel: input}
ClientAddStep ==
    /\ Alive
    /\ client.pc = "add"
    /\ LET input == Head(client.todo) IN
         IF AddPanics(input) \/ CtlSendPanics(rb[FanInId])
         THEN /\ hist' = [hist EXCEPT !.panicked = TRUE]
              /\ UNCHANGED <<rb, client>>
         ELSE /\ CtlSendReady(rb[FanInId])
              /\ rb' = [rb EXCEPT ![FanInId].buf = Append(@, AddCmd(input))]
              /\ client' = [client EXCEPT
                               !.todo = Tail(@),
                               !.args = IF Tail(client.todo) = <<>> THEN <<>> ELSE @,
                               !.added = @ \cup {input},
                               !.pc = IF Tail(client.todo) = <<>> THEN "idle" ELSE "add"]
              /\ UNCHANGED hist
    /\ UNCHANGED <<scenario, block, fo, reader, rd, pc, mp, MapFunc, inch, fi, out, call>>

\* fi.Remove(c)
ClientRemove(c) ==
    /\ Alive
    /\ scenario = "fanin"
    /\ client.pc = "idle"
    /\ client.calls < MaxCalls
    /\ client' = [client EXCEPT !.pc = "send", !.cmd = RemoveCmd(c), !.calls = @ + 1]
    /\ UNCHANGED <<scenario, block, fo, reader, rd, rb, pc, mp, MapFunc, inch, fi, out, call, hist>>

\* fi.Count(): return len(fi.inputs), read in the caller's goroutine with no
\* synchronisation with the worker
ClientCount ==
    /\ Alive
    /\ scenario = "fanin"
    /\ client.pc = "idle"
    /\ client.calls < MaxCalls
    /\ client' = [client EXCEPT !.calls = @ + 1]
    /\ hist' = [hist EXCEPT !.listAccess = @ \cup {"client"}]
    /\ UNCHANGED <<scenario, block, fo, reader, rd, rb, pc, mp, MapFunc, inch, fi, out, call>>

\* fi.controlChan <- fanInCmd{Name: "remove", ...} in Remove
ClientSendCmd ==
    /\ Alive
    /\ client.pc = "send"
    /\ ~CtlSendStuck(rb[FanInId])
    /\ IF CtlSendPanics(rb[FanInId])
       THEN /\ hist' = [hist EXCEPT !.panicked = TRUE]
            /\ UNCHANGED <<rb, client>>
       ELSE /\ CtlSendReady(rb[FanInId])
            /\ rb' = [rb EXCEPT ![FanInId].buf = Append(@, client.cmd)]
            /\ client' = [client EXCEPT !.pc = "idle"]
            /\ UNCHANGED hist
    /\ UNCHANGED <<scenario, block, fo, reader, rd, pc, mp, MapFunc, inch, fi, out, call>>

\* the caller attached at least one input and every attached input is closed
AllAttachedClosed ==
    /\ client.added # {}
    /\ \A c \in client.added : inch[c].closed

\* the worker of runner r is in its loop (at its select or in a send)
WorkerInLoop(r) == pc[r] \in {"select", "send", "recv", "rmStop", "cb", "wait"}

\* the caller calls Stop() on the operator
ClientStop ==
    /\ Alive
    /\ scenario \in {"mapper", "fanin", "reader"}
    /\ client.pc = "idle"
    /\ client.calls < MaxCalls
    /\ client' = [client EXCEPT !.pc = "stop", !.calls = @ + 1,
                                !.closedAtStop = AllAttachedClosed,
                                !.runningAtStop = WorkerInLoop(ClientTarget)]
    /\ call' = [call EXCEPT !["client"] = StopCall(ClientTarget)]
    /\ UNCHANGED <<scenario, block, fo, reader, rd, rb, pc, mp, MapFunc, inch, fi, out, hist>>

\* a second goroutine calls Stop() on the Mapper while the client's Stop() is
\* in progress
OtherStop ==
    /\ Alive
    /\ scenario = "mapper"
    /\ client.pc = "stop"
    /\ call["other"].pc = "idle"
    /\ call' = [call EXCEPT !["other"] = StopCall(ClientTarget)]
    /\ UNCHANGED <<scenario, block, fo, reader, rd, rb, pc, mp, MapFunc, inch, fi, out, client, hist>>

\* the second goroutine's Stop() returned
OtherStopReturn ==
    /\ Alive
    /\ call["other"].pc = "ret"
    /\ call' = [call EXCEPT !["other"].pc = "done"]
    /\ UNCHANGED <<scenario, block, fo, reader, rd, rb, pc, mp, MapFunc, inch, fi, out, client, hist>>

\* Stop() returned to the caller
ClientStopReturn ==
    /\ Alive
    /\ client.pc = "stop"
    /\ call["client"].pc = "ret"
    /\ client' = [client EXCEPT !.pc = "idle", !.stops = @ + 1]
    /\ call' = [call EXCEPT !["client"] = NoCall]
    /\ UNCHANGED <<scenario, block, fo, reader, rd, rb, pc, mp, MapFunc, inch, fi, out, hist>>

\* ----------------------------------------------------------- Reducer steps
\* out.ReduceFunc = ...; out.CollectFunc = ... after NewReducer returned
ReducerSetFuncs ==
    /\ Alive
    /\ scenario = "reducer"
    /\ ~rd.funcs
    /\ rd' = [rd EXCEPT !.funcs = TRUE]
    /\ UNCHANGED <<scenario, block, fo, reader, rb, pc, mp, MapFunc, inch, fi, out, call, client, hist>>

\* the caller calls Send(value): fo.inputChan <- value (values are 1, 2, ...)
ClientReducerSend ==
    /\ Alive
    /\ scenario = "reducer"
    /\ client.pc = "idle"
    /\ client.calls < MaxCalls
    /\ rd.recvd < MaxMsgs
    /\ rd.inState = "open" \/ rd.inNil
    /\ client' = [client EXCEPT !.pc = "rsend", !.calls = @ + 1]
    /\ UNCHANGED <<scenario, block, fo, reader, rd, rb, pc, mp, MapFunc, inch, fi, out, call, hist>>

\* a producer goroutine sends on the input channel: inputChan <- i (the send
\* completes when the worker receives)
ProducerReducerSend ==
    /\ Alive
    /\ scenario = "reducer"
    /\ ~rd.prod
    /\ client.pc # "rsend"
    /\ rd.recvd < MaxMsgs
    /\ rd.inState = "open"
    /\ rd' = [rd EXCEPT !.prod = TRUE]
    /\ UNCHANGED <<scenario, block, fo, reader, rb, pc, mp, MapFunc, inch, fi, out, call, client, hist>>

\* the producer closes an input channel it gave with WithInputChan
ProducerCloseReducerInput ==
    /\ Alive
    /\ scenario = "reducer"
    /\ ~rd.selfOwnIn
    /\ rd.inState = "open"
    /\ client.pc # "rsend"
    /\ ~rd.prod
    /\ rd' = [rd EXCEPT !.inState = "closed"]
    /\ UNCHANGED <<scenario, block, fo, reader, rb, pc, mp, MapFunc, inch, fi, out, call, client, hist>>

\* faulty variant: Flush leaves the collection as it is
AfterFlushKeepsPending(r) ==
    [r EXCEPT !.joined = ReduceFunc(r.pending), !.pc = "sendOut"]

\* Flush(): joinedEvents := fo.ReduceFunc(fo.pendingEvents); pendingEvents = zero;
\* the send of joinedEvents on the output comes next
AfterFlush(r) ==
    [r EXCEPT !.joined = ReduceFunc(r.pending), !.pending = <<>>, !.pc = "sendOut"]

\* select case event := <-fo.inputChan: a value handed over by Send, or the
\* zero value of a closed input channel; CollectFunc, then Flush if asked.
\* Calling a function that is still nil panics.
ReducerRecvInput ==
    /\ Alive
    /\ rd.pc = "select"
    /\ rd.recvd < MaxMsgs
    /\ \/ rd.inState = "open" /\ (client.pc = "rsend" \/ rd.prod)
       \/ rd.inState = "closed"
    /\ IF ~rd.funcs
       THEN /\ hist' = [hist EXCEPT !.panicked = TRUE]
            /\ rd' = [rd EXCEPT !.pc = "nilFunc"]
            /\ UNCHANGED client
       ELSE /\ LET event == IF rd.inState = "open" THEN rd.recvd + 1 ELSE 0
                   c == CollectFunc(event, rd.pending, rd.flushAt)
                   r == [rd EXCEPT !.pending = c.coll, !.recvd = @ + 1,
                                   !.events = Append(@, event),
                                   !.prod = IF rd.inState = "open" /\ client.pc # "rsend"
                                            THEN FALSE ELSE @]
               IN  rd' = IF ShouldFlush(c.flush) THEN AfterFlush(r) ELSE r
            /\ client' = IF rd.inState = "open" /\ client.pc = "rsend"
                         THEN [client EXCEPT !.pc = "idle"] ELSE client
            /\ hist' = [hist EXCEPT !.pendingAccess = @ \cup {"worker"}]
    /\ UNCHANGED <<scenario, block, fo, reader, rb, pc, mp, MapFunc, inch, fi, out, call>>

\* select case <-ticker.C: Flush()
ReducerTick ==
    /\ Alive
    /\ rd.pc = "select"
    /\ rd.ticks < MaxTicks
    /\ IF ~rd.funcs
       THEN /\ hist' = [hist EXCEPT !.panicked = TRUE]
            /\ rd' = [rd EXCEPT !.pc = "nilFunc"]
       ELSE /\ rd' = [AfterFlush(rd) EXCEPT !.ticks = @ + 1,
                                            !.tickAt = Append(@, rd.recvd)]
            /\ hist' = [hist EXCEPT !.pendingAccess = @ \cup {"worker"}]
    /\ UNCHANGED <<scenario, block, fo, reader, rb, pc, mp, MapFunc, inch, fi, out, call, client>>

\* Flush(): fo.outputChan <- joinedEvents, taken by the consumer
ReducerFlushSend ==
    /\ Alive
    /\ rd.pc = "sendOut"
    /\ rd' = [rd EXCEPT !.out = Append(@, rd.joined), !.joined = <<>>, !.pc = "select",
                        !.outBy = Append(@, "worker")]
    /\ UNCHANGED <<scenario, block, fo, reader, rb, pc, mp, MapFunc, inch, fi, out, call, client, hist>>

\* the caller calls Flush(); the first statement runs in the caller's
\* goroutine: joinedEvents := fo.ReduceFunc(fo.pendingEvents).  Calling a
\* ReduceFunc that is still nil panics.
ClientReducerFlush ==
    /\ Alive
    /\ scenario = "reducer"
    /\ client.pc = "idle"
    /\ client.calls < MaxCalls
    /\ IF ~rd.funcs
       THEN /\ hist' = [hist EXCEPT !.panicked = TRUE]
            /\ UNCHANGED <<rd, client>>
       ELSE /\ rd' = [rd EXCEPT !.cjoined = ReduceFunc(rd.pending), !.manual = @ + 1]
            /\ client' = [client EXCEPT !.pc = "rfReset", !.calls = @ + 1]
            /\ hist' = [hist EXCEPT !.pendingAccess = @ \cup {"caller"}]
    /\ UNCHANGED <<scenario, block, fo, reader, rb, pc, mp, MapFunc, inch, fi, out, call>>

\* Flush() in the caller's goroutine: var zero C; fo.pendingEvents = zero
ClientFlushReset ==
    /\ Alive
    /\ client.pc = "rfReset"
    /\ rd' = [rd EXCEPT !.pending = <<>>]
    /\ client' = [client EXCEPT !.pc = "rfSend"]
    /\ UNCHANGED <<scenario, block, fo, reader, rb, pc, mp, MapFunc, inch, fi, out, call, hist>>

\* Flush() in the caller's goroutine: fo.outputChan <- joinedEvents, taken by
\* the consumer
ClientFlushSend ==
    /\ Alive
    /\ client.pc = "rfSend"
    /\ rd' = [rd EXCEPT !.out = Append(@, rd.cjoined), !.cjoined = <<>>,
                        !.outBy = Append(@, "caller")]
    /\ client' = [client EXCEPT !.pc = "idle"]
    /\ UNCHANGED <<scenario, block, fo, reader, rb, pc, mp, MapFunc, inch, fi, out, call, hist>>

\* the caller calls Stop(): fo.cmdChan <- reducerCmd{Name: "stop"}
ClientReducerStop ==
    /\ Alive
    /\ scenario = "reducer"
    /\ client.pc = "idle"
    /\ client.calls < MaxCalls
    /\ client' = [client EXCEPT !.pc = "rstop", !.calls = @ + 1]
    /\ UNCHANGED <<scenario, block, fo, reader, rd, rb, pc, mp, MapFunc, inch, fi, out, call, hist>>

\* faulty variant: the worker flushes what is pending before it returns
AfterStopCmdFlushes(r) ==
    [r EXCEPT !.out = Append(@, ReduceFunc(r.pending)), !.pending = <<>>,
              !.outBy = Append(@, "worker"), !.pc = "cleanup"]

\* if cmd.Name == "stop" { return }: the worker leaves its loop and touches
\* neither pendingEvents nor the output
AfterStopCmd(r) == [r EXCEPT !.pc = "cleanup"]

\* select case cmd := <-fo.cmdChan with cmd.Name == "stop": return; the
\* unbuffered send of Stop() completes and Stop() goes on to fo.wg.Wait()
ReducerRecvStop ==
    /\ Alive
    /\ rd.pc = "select"
    /\ client.pc = "rstop"
    /\ rd' = AfterStopCmd(rd)
    /\ client' = [client EXCEPT !.pc = "rwait"]
    /\ UNCHANGED <<scenario, block, fo, reader, rb, pc, mp, MapFunc, inch, fi, out, call, hist>>

\* faulty variant: the deferred function closes the input channel whoever owns it
ReducerClosesInputAlways(r) == TRUE

\* the deferred function: if fo.selfOwnIn { close(fo.inputChan); ... }
ReducerClosesInput(r) == r.selfOwnIn

\* the deferred function of the worker: ticker.Stop(); close the input channel
\* if owned and set the field to nil; fo.wg.Done()
ReducerCleanup ==
    /\ Alive
    /\ rd.pc = "cleanup"
    /\ rd' = [rd EXCEPT !.pc = "exited", !.wg = @ - 1,
                        !.inState = IF ReducerClosesInput(rd) THEN "closed" ELSE @,
                        !.inNil = IF ReducerClosesInput(rd) THEN TRUE ELSE @]
    /\ hist' = [hist EXCEPT
                  !.closedChan[ReducerId] = ClosedChanAtExit(@),
                  !.ownedCloses = IF ReducerClosesInput(rd) /\ rd.selfOwnIn THEN @ + 1 ELSE @,
                  !.borrowedCloses = IF ReducerClosesInput(rd) /\ ~rd.selfOwnIn THEN @ + 1 ELSE @]
    /\ UNCHANGED <<scenario, block, fo, reader, rb, pc, mp, MapFunc, inch, fi, out, call, client>>

\* fo.wg.Wait() in Stop() returns
ClientReducerStopReturn ==
    /\ Alive
    /\ client.pc = "rwait"
    /\ rd.wg = 0
    /\ client' = [client EXCEPT !.pc = "idle", !.stops = @ + 1]
    /\ UNCHANGED <<scenario, block, fo, reader, rd, rb, pc, mp, MapFunc, inch, fi, out, call, hist>>

\* ------------------------------------------------------------ Reader steps
\* the reading goroutine at the top of its loop: select { case <-stopReading:
\* return; default: } where the source has it, then the call of rc.Read()
ReaderCheck ==
    /\ Alive
    /\ reader.ipc = "check"
    /\ Len(reader.results) < MaxReads
    /\ reader' = [reader EXCEPT !.ipc = IF reader.stopSel /\ reader.stopReading
                                        THEN "done" ELSE "reading"]
    /\ UNCHANGED <<scenario, block, fo, rb, pc, mp, MapFunc, inch, fi, out, call, client, rd, hist>>

\* rc.Read() returns (newMessage, err); the tests on err and on rc.msgChannel
ReaderRead(err) ==
    /\ Alive
    /\ reader.ipc = "reading"
    /\ reader' = [reader EXCEPT !.err = err, !.results = Append(@, err),
                                !.ipc = IF EmitsMessage(reader, err)
                                        THEN "sendMsg" ELSE AfterMessage(err)]
    /\ UNCHANGED <<scenario, block, fo, rb, pc, mp, MapFunc, inch, fi, out, call, client, rd, hist>>

\* rc.msgChannel <- Message{Value: newMessage, Error: err}, taken by the
\* consumer; the send panics when cleanup has closed the channel
ReaderSendMsg ==
    /\ Alive
    /\ reader.ipc = "sendMsg"
    /\ IF reader.msgState = "closed"
       THEN /\ hist' = [hist EXCEPT !.panicked = TRUE]
            /\ UNCHANGED reader
       ELSE /\ reader' = [reader EXCEPT
                            !.out = Append(@, [n |-> Len(reader.results), error |-> reader.err]),
                            !.ipc = AfterMessage(reader.err)]
            /\ UNCHANGED hist
    /\ UNCHANGED <<scenario, block, fo, rb, pc, mp, MapFunc, inch, fi, out, call, client, rd>>

\* rc.closedChan <- err; break.  The channel has capacity 1; the send panics
\* when cleanup has closed it
ReaderSendErr ==
    /\ Alive
    /\ reader.ipc = "sendErr"
    /\ IF reader.closedState = "closed"
       THEN /\ hist' = [hist EXCEPT !.panicked = TRUE]
            /\ UNCHANGED reader
       ELSE /\ Len(reader.closedBuf) < 1
            /\ reader' = [reader EXCEPT !.closedBuf = Append(@, reader.err),
                                        !.ipc = "done"]
            /\ UNCHANGED hist
    /\ UNCHANGED <<scenario, block, fo, rb, pc, mp, MapFunc, inch, fi, out, call, client, rd>>

\* case <-stopReading: return, in the selects around the two sends (block.go)
ReaderStopSeen ==
    /\ Alive
    /\ reader.stopSel /\ reader.stopReading
    /\ reader.ipc \in {"sendMsg", "sendErr"}
    /\ reader' = [reader EXCEPT !.ipc = "done"]
    /\ UNCHANGED <<scenario, block, fo, rb, pc, mp, MapFunc, inch, fi, out, call, client, rd, hist>>

\* the Reader's own goroutine receives the stop value from controlChan:
\* close(stopReading) and the sleep where the source has them, then return
ReaderRecvStop ==
    /\ Alive
    /\ pc[ReaderId] = "wait"
    /\ rb[ReaderId].buf # <<>>
    /\ rb' = [rb EXCEPT ![ReaderId].buf = Tail(@)]
    /\ pc' = [pc EXCEPT ![ReaderId] = "cleanup"]
    /\ reader' = [reader EXCEPT !.stopReading = reader.stopSel]
    /\ UNCHANGED <<scenario, block, fo, mp, MapFunc, inch, fi, out, call, client, rd, hist>>

\* faulty variant: cleanup leaves closedChan open
CloseClosedChanSkipped(n) == n

\* close(r.closedChan) in Reader.cleanup (n counts the closes)
CloseClosedChan(n) == n + 1

\* Reader.cleanup: r.msgChannel = nil; close(oldCh); close(r.closedChan);
\* r.RunnerBase.cleanup() follows
ReaderCleanup ==
    /\ Alive
    /\ pc[ReaderId] = "cleanup"
    /\ reader' = [reader EXCEPT !.msgNil = TRUE, !.msgState = "closed",
                                !.closedState = IF CloseClosedChan(0) > 0 THEN "closed" ELSE @]
    /\ hist' = [hist EXCEPT !.closedChan[ReaderId] = CloseClosedChan(@)]
    /\ pc' = [pc EXCEPT ![ReaderId] = "close"]
    /\ UNCHANGED <<scenario, block, fo, rb, mp, MapFunc, inch, fi, out, call, client, rd>>

\* a receiver on ClosedChan() gets the buffered error, or, once, the nil of
\* the closed channel
ClosedChanRecv ==
    /\ Alive
    /\ scenario = "reader"
    /\ \/ /\ reader.closedBuf # <<>>
          /\ reader' = [reader EXCEPT !.closedBuf = Tail(@),
                                      !.closedRecv = Append(@, Head(reader.closedBuf))]
       \/ /\ reader.closedBuf = <<>>
          /\ reader.closedState = "closed"
          /\ "nil" \notin {reader.closedRecv[i] : i \in DOMAIN reader.closedRecv}
          /\ reader' = [reader EXCEPT !.closedRecv = Append(@, "nil")]
    /\ UNCHANGED <<scenario, block, fo, rb, pc, mp, MapFunc, inch, fi, out, call, client, rd, hist>>

\* ------------------------------------------------------------ FanOut steps
\* the worker receives the next value of the input (Send or InputChan() <- v;
\* the producer sends 1, 2, ...)
FanOutRecv ==
    /\ Alive
    /\ fo.pc = "recv"
    /\ fo.sent < MaxMsgs
    /\ fo' = [fo EXCEPT !.val = fo.sent + 1, !.sent = @ + 1, !.idx = 1, !.pc = "deliver"]
    /\ UNCHANGED <<scenario, block, reader, rb, pc, mp, MapFunc, inch, fi, out, call, client, rd, hist>>

\* the worker applies the filter of output idx to the value and, if the
\* filter yields one, sends it on that output, where the consumer takes it
FanOutDeliver ==
    /\ Alive
    /\ fo.pc = "deliver"
    /\ LET i == fo.idx
           r == ApplyFilter(fo.outs[i], fo.val)
           n == NextOutput(i)
       IN  fo' = [fo EXCEPT !.got[i] = IF r = Suppress THEN @ ELSE Append(@, r),
                            !.idx = n,
                            !.pc = IF n > Len(fo.outs) THEN "recv" ELSE "deliver"]
    /\ UNCHANGED <<scenario, block, reader, rb, pc, mp, MapFunc, inch, fi, out, call, client, rd, hist>>

\* Stop(): the worker, between two values, stops
FanOutStop ==
    /\ Alive
    /\ fo.pc = "recv"
    /\ fo' = [fo EXCEPT !.pc = "exited"]
    /\ UNCHANGED <<scenario, block, reader, rb, pc, mp, MapFunc, inch, fi, out, call, client, rd, hist>>

\* ------------------------------------------------------------- Block steps
\* the caller adds a running component to the block
ClientBlockAdd(failing) ==
    /\ Alive
    /\ scenario = "block"
    /\ Len(block.components) < MaxComps
    /\ block.ret = "none"
    /\ block' = BlockAdd(block, failing)
    /\ UNCHANGED <<scenario, fo, reader, rb, pc, mp, MapFunc, inch, fi, out, call, client, rd, hist>>

\* the caller calls Block.Stop(), under b.mu
ClientBlockStop ==
    /\ Alive
    /\ scenario = "block"
    /\ client.calls < MaxCalls
    /\ block' = IF BlockStopReturnsEarly(block)
                THEN [block EXCEPT !.ret = "nil"]
                ELSE StopFrom(block, Len(block.components))
    /\ client' = [client EXCEPT !.calls = @ + 1]
    /\ UNCHANGED <<scenario, fo, reader, rb, pc, mp, MapFunc, inch, fi, out, call, rd, hist>>

\* ------------------------------------------------------------------- Next
Next ==
    \/ \E c \in AllMappers : ProducerClose(c)
    \/ \E m \in AllMappers : MapperRecvStop(m)
    \/ \E m \in AllMappers : MapperRecvValue(m)
    \/ \E m \in AllMappers : MapperRecvClosed(m)
    \/ \E m \in AllMappers : MapperSend(m)
    \/ \E r \in Runners : CleanupClose(r)
    \/ \E r \in Runners : CleanupDone(r)
    \/ \E k \in Callers : StopSend(k)
    \/ \E k \in Callers : StopSetFlag(k)
    \/ \E k \in Callers : StopWait(k)
    \/ FanInRecvAdd
    \/ FanInRecvRemove
    \/ FanInRemoveFinish
    \/ FanInCallbackReturn
    \/ FanInRecvStop
    \/ FanInCleanupNext
    \/ FanInCleanupLinkDone
    \/ FanInCleanupOut
    \/ \E a \in AddArgs : ClientAdd(a)
    \/ ClientAddStep
    \/ \E c \in Chans : ClientRemove(c)
    \/ ClientCount
    \/ ClientSendCmd
    \/ ClientStop
    \/ ClientStopReturn
    \/ OtherStop
    \/ OtherStopReturn
    \/ ReducerSetFuncs
    \/ ClientReducerSend
    \/ ProducerReducerSend
    \/ ProducerCloseReducerInput
    \/ ReducerRecvInput
    \/ ReducerTick
    \/ ReducerFlushSend
    \/ ClientReducerFlush
    \/ ClientFlushReset
    \/ ClientFlushSend
    \/ ClientReducerStop
    \/ ReducerRecvStop
    \/ ReducerCleanup
    \/ ClientReducerStopReturn
    \/ ReaderCheck
    \/ \E err \in ReadErrors : ReaderRead(err)
    \/ ReaderSendMsg
    \/ ReaderSendErr
    \/ ReaderStopSeen
    \/ ReaderRecvStop
    \/ ReaderCleanup
    \/ ClosedChanRecv
    \/ FanOutRecv
    \/ FanOutDeliver
    \/ FanOutStop
    \/ \E failing \in BOOLEAN : ClientBlockAdd(failing)
    \/ ClientBlockStop

Spec == Init /\ [][Next]_vars

\* ================================================================ claims
\* the FanIn's worker is blocked for ever: it is in Stop() on a link, at the
\* send on a control channel field that holds nil (and is never set again)
WorkerStuck == call["worker"].pc = "send" /\ CtlSendStuck(rb[call["worker"].target])

\* C1: a Stop() called after an earlier Stop() on the same operator has
\* returned returns at once: it does not panic, and it never reaches the
\* send of the stop sentinel (where it would signal again, or block)
C1_SecondStopReturnsAtOnce ==
    (client.stops >= 1 /\ client.pc = "stop") =>
        (call["client"].pc = "ret" /\ ~hist.panicked)

\* C2: when a Stop() has returned, the worker of its target has exited; for a
\* FanIn every forwarding link's worker has exited as well, so nothing is
\* sent on the output after the return
StoppedFor(r) ==
    /\ pc[r] = "exited"
    /\ (r = FanInId => \A c \in Chans : pc[c] \in {"none", "exited"})

C2_StopReturnsAfterWorkerExit ==
    /\ \A k \in Callers : call[k].pc = "ret" => StoppedFor(call[k].target)
    /\ (scenario # "reducer" /\ client.stops >= 1) => StoppedFor(ClientTarget)

\* C3: every value sent on an attached input is delivered on the output with
\* the multiplicity it was sent with, or is still held by the link that is
\* sending it to the consumer; none is lost, none duplicated
DeliveredCount(v) ==
    Cardinality({p \in Chans \X (1..MaxMsgs) : p[2] <= Len(out[p[1]]) /\ out[p[1]][p[2]] = v})

SentCount(v) == Cardinality({c \in Chans : inch[c].sent > v})

InFlightCount(v) == Cardinality({c \in Chans : pc[c] = "send" /\ mp[c].val = v})

C3_FanInDeliversEachValueOnce ==
    scenario = "fanin" =>
        \A v \in Vals : DeliveredCount(v) + InFlightCount(v) = SentCount(v)

C3_Witness ==
    /\ scenario = "fanin"
    /\ \A c \in Chans : inch[c].closed /\ inch[c].sent = MaxMsgs /\ pc[c] = "exited"
    /\ \A v \in Vals : DeliveredCount(v) = NumChans

\* C4: no operator closes a channel its caller supplied: not a Mapper its
\* input or output, not a FanIn an attached input or a caller-supplied
\* output, not a Reducer a channel given by WithInputChan or WithOutputChan
C4_BorrowedChannelsNeverClosed ==
    /\ hist.borrowedCloses = 0
    /\ (scenario = "fanin" /\ ~fi.selfOwnOut) => fi.outState = "open"
    /\ (scenario = "reducer" /\ ~rd.selfOwnOut) => rd.outState = "open"
    /\ (scenario = "reducer" /\ ~rd.selfOwnIn) => ~rd.inNil

C4_Witness ==
    \/ /\ scenario = "fanin" /\ ~fi.selfOwnOut
       /\ pc[FanInId] = "exited"
       /\ \E c \in Chans : pc[c] = "exited" /\ out[c] # <<>>
    \/ /\ scenario = "reducer" /\ ~rd.selfOwnIn /\ ~rd.selfOwnOut
       /\ rd.pc = "exited" /\ rd.out # <<>>

\* C5: a FanIn that made its output channel closes it exactly once, in its
\* cleanup after every link has terminated, and never while its worker is
\* still in the command loop
C5_OwnedOutputClosedOnceAtEnd ==
    (scenario = "fanin" /\ fi.selfOwnOut) =>
        /\ hist.ownedCloses <= 1
        /\ (fi.outState = "closed") = (hist.ownedCloses = 1)
        /\ fi.outState = "closed" =>
              /\ pc[FanInId] \in {"close", "nil", "exited"}
              /\ \A c \in Chans : pc[c] \in {"none", "exited"}
        /\ pc[FanInId] = "exited" => hist.ownedCloses = 1

C5_Witness ==
    /\ scenario = "fanin" /\ fi.selfOwnOut
    /\ pc[FanInId] = "exited"
    /\ hist.ownedCloses = 1
    /\ \E c \in Chans : out[c] # <<>>

\* C6: once a worker has terminated, IsRunning() is false
C6_TerminatedIsNotRunning ==
    \A r \in Runners : pc[r] = "exited" => ~IsRunning(rb[r])

\* C7: a link that went away, by a processed Remove or because its input was
\* closed upstream, is out of the FanIn's list and OnChannelRemoved, when
\* set, was called exactly once with its channel.  The case of the closed
\* input is read when the FanIn's worker is idle with nothing queued.
FanInIdle == pc[FanInId] = "recv" /\ rb[FanInId].buf = <<>>

InList(c) == \E i \in 1..Len(fi.inputs) : fi.inputs[i] = c

C7_LinkGoneIsRemovedAndReported ==
    scenario = "fanin" =>
        \A c \in Chans :
            /\ hist.removed[c] >= 0 =>
                  (~InList(c) /\ (fi.cbSet => hist.cb[c] = 1))
            /\ (FanInIdle /\ pc[c] = "exited" /\ mp[c].why = "closed") =>
                  (~InList(c) /\ (fi.cbSet => hist.cb[c] = 1))

\* C8: Remove(target) for a link that terminated by itself is processed
\* without a panic and without blocking the FanIn's worker
C8_RemoveOfClosedLinkIsSafe ==
    (pc[FanInId] = "rmStop" /\ mp[call["worker"].target].why = "closed") =>
        (~hist.panicked /\ ~WorkerStuck)

\* C9: once Remove(c) is processed nothing more of c reaches the output, the
\* output channel stays open, and the other links stay in the list, not
\* stopped, as long as the FanIn's worker is in its command loop
FanInInLoop == pc[FanInId] \in {"recv", "rmStop", "cb"}

ListedSet == {fi.inputs[i] : i \in 1..Len(fi.inputs)}

BeingRemoved(c) == pc[FanInId] = "rmStop" /\ call["worker"].target = c

C10_StopAfterInputsClosedReturns ==
    (scenario = "fanin" /\ client.pc = "stop" /\ client.closedAtStop
        /\ pc[FanInId] = "clStop") =>
        (~hist.panicked /\ ~WorkerStuck)

C12_ListTouchedOnlyByWorker == hist.listAccess \subseteq {"worker"}

\* C13: Add panics as soon as it meets a nil input and enqueues no command
\* for it: no add command and no link ever carries a nil channel; the inputs
\* listed before the nil were enqueued, those after it are not
AddDone == SubSeq(client.args, 1, Len(client.args) - Len(client.todo))

C13_AddPanicsOnNilInput ==
    scenario = "fanin" =>
        /\ \A i \in 1..Len(rb[FanInId].buf) :
              rb[FanInId].buf[i].name = "add" => rb[FanInId].buf[i].ch # NilChan
        /\ NilChan \notin hist.attached \cup client.added
        /\ \A i \in 1..Len(fi.inputs) : fi.inputs[i] # NilChan
        /\ client.pc = "add" =>
              /\ \A i \in 1..Len(AddDone) :
                    AddDone[i] # NilChan /\ AddDone[i] \in client.added
              /\ \A i \in 1..Len(client.todo) : client.todo[i] \notin client.added

C13_Witness ==
    /\ scenario = "fanin"
    /\ hist.panicked
    /\ client.pc = "add"
    /\ Len(client.args) = MaxArgs
    /\ client.args[MaxArgs] = NilChan
    /\ client.todo = <<NilChan>>
    /\ client.args[1] \in client.added

\* C14: with no Stop(), the output of a Mapper is the map function applied to
\* the input values in input order, without the values whose skip flag is true
\* and ending with the first value whose stop flag is true (sent when its skip
\* flag is false); a Pipe forwards every value unchanged.  The standalone
\* Mapper's function is f(i) = (2 * i, skip(i), stop(i)); the input values are
\* 0, 1, ... in send order.
RECURSIVE ExpectedFrom(_, _)
ExpectedFrom(v, n) ==
    IF v >= n THEN <<>>
    ELSE LET head == IF MapFunc[v].skip THEN <<>> ELSE <<2 * v>>
         IN  IF MapFunc[v].stop THEN head ELSE head \o ExpectedFrom(v + 1, n)

\* what Mapper m handed to its consumer, with the value it is sending now
Forwarded(m) == IF pc[m] = "send" THEN Append(out[m], mp[m].val) ELSE out[m]

C14_MapperOutputIsMappedInput ==
    /\ (scenario = "mapper" /\ client.calls = 0) =>
          /\ Forwarded(StandaloneId) = ExpectedFrom(0, inch[StandaloneId].sent)
          /\ \A v \in Vals : v + 1 < inch[StandaloneId].sent => ~MapFunc[v].stop
    /\ scenario = "fanin" =>
          \A c \in Chans : Forwarded(c) = [i \in 1..inch[c].sent |-> i - 1]

C14_Witness ==
    /\ scenario = "mapper" /\ client.calls = 0
    /\ MapFunc[0].skip /\ ~MapFunc[0].stop
    /\ ~MapFunc[1].skip /\ MapFunc[1].stop
    /\ pc[StandaloneId] = "exited"
    /\ out[StandaloneId] = <<2>>

\* C15: a Mapper whose worker returned because its input was closed has
\* forwarded every value it received before the close (no value is left to
\* send, none is sent later) and has closed neither its input nor its output
ReturnedOnClose(m) == mp[m].why = "closed" /\ pc[m] \in {"close", "nil", "exited"}

C15_InputClosedEndsMapper ==
    \A m \in AllMappers :
        ReturnedOnClose(m) =>
            /\ inch[m].closed
            /\ out[m] = IF m = StandaloneId
                        THEN ExpectedFrom(0, inch[m].sent)
                        ELSE [i \in 1..inch[m].sent |-> i - 1]
            /\ hist.borrowedCloses = 0
            /\ (m \in Chans /\ ~fi.selfOwnOut) => fi.outState = "open"

C15_Witness ==
    /\ scenario = "mapper"
    /\ ReturnedOnClose(StandaloneId)
    /\ pc[StandaloneId] = "exited"
    /\ Len(out[StandaloneId]) = MaxMsgs

\* C16: when a Mapper has terminated, for whatever cause, its OnDone callback
\* (set by the FanIn for its links, by the caller for a standalone Mapper) has
\* been called exactly once
C16_OnDoneCalledOnceAtTermination ==
    \A m \in AllMappers :
        /\ hist.onDone[m] <= 1
        /\ pc[m] = "exited" => hist.onDone[m] = 1

\* C17: a Stop() issued on a Mapper whose worker is in its loop returns in
\* the end (the scheduling is fair, the consumer takes every value).  A Stop()
\* that has panicked, or that sits at the send on a control channel field
\* holding nil, never returns: no such state is reached.
StopNeverReturns(k) ==
    \/ hist.panicked
    \/ call[k].pc = "send" /\ CtlSendStuck(rb[call[k].target])

C17_StopOnRunningMapperReturns ==
    (scenario = "mapper" /\ client.pc = "stop" /\ client.runningAtStop) =>
        ~StopNeverReturns("client")

\* C18: with no Flush() called from outside, the Reducer emits a batch on an
\* input value exactly when CollectFunc
\* returned true for it: the batch ends with that value, the collection starts
\* again from empty, and the other values stay pending until a tick.  With a
\* CollectFunc asking for a flush at length k, the batches of length k are
\* those of the inputs and the shorter ones those of the ticks; with k = 1
\* there is one batch for each value, holding that value alone.
Batches == IF rd.pc = "sendOut" THEN Append(rd.out, rd.joined) ELSE rd.out

RECURSIVE Concat(_)
Concat(ss) == IF ss = <<>> THEN <<>> ELSE Head(ss) \o Concat(Tail(ss))

NonEmpty(b) == b # <<>>

TickBatch(i) ==
    SubSeq(rd.events, (IF i = 1 THEN 0 ELSE rd.tickAt[i - 1]) + 1, rd.tickAt[i])

IsPrefix(a, b) == Len(a) <= Len(b) /\ SubSeq(b, 1, Len(a)) = a

InputSeq == [i \in 1..MaxMsgs |-> i]

C20_BatchesArePrefixOfInput ==
    (scenario = "reducer" /\ rd.flushAt = 0 /\ rd.manual = 0) =>
        /\ IsPrefix(Concat(rd.out), InputSeq)
        /\ Concat(Batches) \o rd.pending = rd.events
        /\ (rd.out # <<>> /\ rd.tickAt[1] = MaxMsgs) => rd.out[1] = InputSeq

\* C21: a manual Flush() sends the reduction of everything accumulated since
\* the last flush (of the empty collection when there is nothing) and resets
\* pendingEvents: when Flush() in the caller's goroutine is about to send,
\* its batch holds exactly the values the worker received that are in no
\* other batch and not in pendingEvents (input channel open)
Count(v, seq) == Cardinality({i \in DOMAIN seq : seq[i] = v})

C21_ManualFlushEmitsAccumulated ==
    (scenario = "reducer" /\ client.pc = "rfSend" /\ rd.inState = "open") =>
        \A v \in 0..MaxMsgs :
            Count(v, rd.cjoined) + Count(v, Concat(Batches)) + Count(v, rd.pending)
                = Count(v, rd.events)

\* C22: a second Stop() on a Reducer, called after the first one returned,
\* returns: it is never left at its send on cmdChan with the worker gone (no
\* goroutine receives from cmdChan any more), and no channel is closed twice
ReducerStopBlocked ==
    client.pc = "rstop" /\ rd.pc \in {"cleanup", "exited"}

C22_SecondReducerStopReturns ==
    (scenario = "reducer" /\ client.stops >= 1) =>
        /\ ~ReducerStopBlocked
        /\ hist.ownedCloses + hist.borrowedCloses <= 1

\* C23: once Stop() has returned on a Reducer, every channel the Reducer made
\* itself (input without WithInputChan, output without WithOutputChan) is
\* closed, and closed once
C23_OwnedChannelsClosedAfterStop ==
    (scenario = "reducer" /\ client.stops >= 1) =>
        /\ rd.selfOwnIn => (rd.inState = "closed" /\ hist.ownedCloses = 1)
        /\ rd.selfOwnOut => rd.outState = "closed"

\* C24: pendingEvents is read and written by the Reducer's worker only: no
\* statement that runs in a caller's goroutine (Send, Flush, Stop) touches it
C24_PendingTouchedOnlyByWorker ==
    scenario = "reducer" => hist.pendingAccess \subseteq {"worker"}

\* C25: Stop() on a Reducer whose worker is at its select (not in a flush
\* send) is taken whatever is pending and whenever the ticker fires next, and
\* returns once the worker has exited; the worker's steps from the stop
\* command to its exit emit no batch and leave pendingEvents as it is, so that
\* (no Flush() called from outside) every value the worker received is in an
\* emitted batch or still in pendingEvents when it has terminated
StopTaken == rd.pc # "cleanup" /\ rd'.pc = "cleanup"

StopFinished == rd.pc = "cleanup" /\ rd'.pc = "exited"

C25_StopKeepsPendingEmitsNothing ==
    /\ []((scenario = "reducer" /\ Alive /\ client.stops = 0) =>
            /\ (client.pc = "rstop" /\ rd.pc = "select") => ENABLED ReducerRecvStop
            /\ (client.pc = "rwait" /\ rd.pc = "cleanup") => ENABLED ReducerCleanup
            /\ (client.pc = "rwait" /\ rd.pc = "exited") => ENABLED ClientReducerStopReturn
            /\ (rd.pc = "exited" /\ rd.manual = 0) =>
                   Concat(rd.out) \o rd.pending = rd.events)
    /\ [][(StopTaken \/ StopFinished) =>
            /\ rd'.out = rd.out
            /\ rd'.pending = rd.pending
            /\ rd'.events = rd.events]_vars

C25_Witness ==
    /\ scenario = "reducer"
    /\ client.stops = 1
    /\ rd.pc = "exited"
    /\ rd.ticks = 0
    /\ rd.out = <<>>
    /\ rd.inState = "open"
    /\ Len(rd.pending) = MaxMsgs

\* C26: a Reducer reports IsRunning() = true as long as its worker has not
\* been stopped and IsRunning() = false once Stop() has returned, with an
\* input channel of its own as with one given by WithInputChan
C26_ReducerIsRunningUntilStopped ==
    scenario = "reducer" =>
        /\ rd.pc \in {"select", "sendOut"} => ReducerIsRunning(rd)
        /\ client.stops >= 1 => ~ReducerIsRunning(rd)

\* C30: with no Stop() called, a non-timeout error returned by Read is emitted
\* once as the Error of a Message, is signalled on ClosedChan(), and shuts the
\* Reader down (no further Read; once the reading goroutine has ended and the
\* error has been taken from ClosedChan() no goroutine of the Reader can take
\* a step, and IsRunning() is then not true); a timeout emits no Message and
\* the reading goes on
Terminal(err) == err \notin {"nil", "timeout"}

PastSend(i) == i < Len(reader.results) \/ reader.ipc \in {"check", "sendErr", "done"}

MessagesOf(i) == {j \in DOMAIN reader.out : reader.out[j].n = i}

Signalled(err) ==
    \/ err \in {reader.closedBuf[j] : j \in DOMAIN reader.closedBuf}
    \/ err \in {reader.closedRecv[j] : j \in DOMAIN reader.closedRecv}

ErrorEmittedOnce ==
    \A i \in DOMAIN reader.results :
        (Terminal(reader.results[i]) /\ PastSend(i)) =>
            /\ Cardinality(MessagesOf(i)) = 1
            /\ \A j \in MessagesOf(i) : reader.out[j].error = reader.results[i]

ErrorSignalled ==
    \A i \in DOMAIN reader.results :
        (Terminal(reader.results[i]) /\ reader.ipc = "done") =>
            /\ i = Len(reader.results)
            /\ Signalled(reader.results[i])

ShutDownAfterError ==
    (reader.ipc = "done" /\ reader.closedBuf = <<>>) => ~IsRunning(rb[ReaderId])

TimeoutGoesOn ==
    \A i \in DOMAIN reader.results :
        reader.results[i] = "timeout" =>
            /\ MessagesOf(i) = {}
            /\ i = Len(reader.results) => reader.ipc \in {"check", "reading"}

C30_ReadErrorShutsReaderDown ==
    (scenario = "reader" /\ client.calls = 0) =>
        /\ ErrorEmittedOnce
        /\ ErrorSignalled
        /\ ShutDownAfterError
        /\ TimeoutGoesOn

\* C27: the ClosedChan() of every operator is closed once, when the operator
\* terminates, and not before; a receiver on the ClosedChan() of a Reader whose
\* Read returned no terminal error gets nothing but the nil of the closed channel
ReaderCleanedUp == pc[ReaderId] \in {"close", "nil", "exited"}

Served(i) ==
    IF fo.pc = "deliver" /\ i >= fo.idx THEN fo.sent - 1 ELSE fo.sent

NoFilters == \A i \in DOMAIN fo.outs : fo.outs[i] = "nil"

C28_EveryOutputGetsEveryValue ==
    (scenario = "fanout" /\ NoFilters) =>
        \A i \in DOMAIN fo.outs : fo.got[i] = [v \in 1..Served(i) |-> v]

C28_Witness ==
    /\ scenario = "fanout"
    /\ NoFilters
    /\ Len(fo.outs) = MaxOuts
    /\ fo.sent = MaxMsgs
    /\ fo.pc = "recv"
    /\ \A i \in DOMAIN fo.outs : Len(fo.got[i]) = MaxMsgs

\* C29: an output registered with a filter receives a value exactly when the
\* filter yields one for it, and receives what the filter yields; an output
\* with a nil filter receives every value unchanged; what an output receives
\* depends on its own filter only
IsEven(v) == v % 2 = 0

Doubled(v) == v + v

ExpectedOn(f, n) ==
    IF f = "nil" THEN [v \in 1..n |-> v]
    ELSE IF f = "double" THEN [v \in 1..n |-> Doubled(v)]
    ELSE SelectSeq([v \in 1..n |-> v], IsEven)

C29_OutputGetsWhatItsFilterYields ==
    scenario = "fanout" =>
        \A i \in DOMAIN fo.outs : fo.got[i] = ExpectedOn(fo.outs[i], Served(i))

C29_Witness ==
    /\ scenario = "fanout"
    /\ fo.outs = <<"evens", "nil">>
    /\ fo.sent = MaxMsgs
    /\ fo.pc = "recv"
    /\ fo.got[1] = <<2>>
    /\ fo.got[2] = <<1, 2>>

\* C31: Block.Stop() stops the components in the reverse of the order of
\* Add; when it has returned nil no component is running; when a component's
\* Stop() failed it returns the error and the components added before that
\* one are not stopped
Reverse(n, k) == [j \in 1..k |-> n - j + 1]

C31_BlockStopStopsAllInReverse ==
    scenario = "block" =>
        LET n == Len(block.components) IN
        /\ block.ret = "nil" =>
               /\ ~BlockIsRunning(block)
               /\ block.stopped = Reverse(n, n)
        /\ block.ret = "err" =>
               /\ block.stopped = Reverse(n, Len(block.stopped))
               /\ block.components[block.stopped[Len(block.stopped)]].failing

\* C32: with Flush() called from outside while the worker accepts values
\* (ticker not fired, only values a producer sent), every value the worker
\* accepted is in exactly one batch, emitted or being sent, or in
\* pendingEvents: none is lost and none is emitted twice
ManualInFlight == IF client.pc = "rfSend" THEN <<rd.cjoined>> ELSE <<>>

Copies(v) == Count(v, Concat(Batches \o ManualInFlight)) + Count(v, rd.pending)

C32_ExternalFlushKeepsEveryValue ==
    (scenario = "reducer" /\ rd.ticks = 0) =>
        \A i \in DOMAIN rd.events :
            rd.events[i] >= 1 => Copies(rd.events[i]) = 1

\* C33: every element of every batch the Reducer emits is a value a producer
\* sent (the producers send 1, 2, ...): the worker combines no value that
\* nobody sent, and after the producer closed a borrowed input channel it
\* takes no zero value from it
SentValues == 1..MaxMsgs

ElementsOf(seq) == {seq[i] : i \in DOMAIN seq}

C33_BatchesHoldOnlySentValues ==
    scenario = "reducer" =>
        /\ ElementsOf(Concat(rd.out)) \subseteq SentValues
        /\ ElementsOf(rd.events) \subseteq SentValues

\* C34: the Reducer's worker never calls CollectFunc or ReduceFunc while the
\* field is still nil: a value or a tick that comes between the start of the
\* worker in NewReducer and the assignment of the two functions calls no nil
\* function
C34_WorkerCallsNoNilFunc ==
    scenario = "reducer" => rd.pc # "nilFunc"

\* C35: two Stop() calls running at the same time on a Mapper whose worker
\* does not return by itself both return, and neither is at its send on the
\* control channel once cleanup has closed the channel or set the field to nil
TwoStops == client.pc = "stop" /\ client.stops = 0 /\ call["other"].pc # "idle"

EndsOnlyByStop == mp[StandaloneId].why \in {"none", "stop"}

C35_ConcurrentStopsSendOnOpenChannel ==
    (scenario = "mapper" /\ TwoStops /\ EndsOnlyByStop) =>
        /\ ~hist.panicked
        /\ \A k \in {"client", "other"} :
               call[k].pc = "send" => rb[call[k].target].ctl = "open"

\* C36: Add or Remove called after a Stop() of the FanIn has returned is at
\* its send on the control channel only while that channel is open, so that
\* the send neither panics (closed channel) nor blocks for ever (nil channel)
SendsCommand ==
    \/ client.pc = "send"
    \/ client.pc = "add" /\ ~AddPanics(Head(client.todo))

C36_CommandAfterStopFindsOpenChannel ==
    (scenario = "fanin" /\ client.stops >= 1 /\ SendsCommand) =>
        rb[FanInId].ctl = "open"

\* C37: once cleanup has closed an output channel the FanIn owns, every
\* forwarding link that was ever created, listed at shutdown or removed
\* before, has terminated, so no link is left to send on the closed channel
OwnedOutputClosed == fi.selfOwnOut /\ fi.outState = "closed"

LinkTerminated(c) == pc[c] \in {"none", "exited"}

C37_LinksEndBeforeOutputCloses ==
    (scenario = "fanin" /\ OwnedOutputClosed) =>
        \A c \in Chans : LinkTerminated(c)

C37_Witness ==
    /\ scenario = "fanin"
    /\ OwnedOutputClosed
    /\ \E c \in Chans : pc[c] = "exited" /\ mp[c].why = "stop" /\ out[c] # <<>>

\* C38: a send that waits for the consumer is not cancelled by Stop(): while
\* a Mapper's worker is in its send on the output, or a Reducer's worker in
\* the send of a flush, no step takes a further input, none takes the stop
\* request off the control channel, and no Stop() that waits for the worker
\* returns; so that Stop() returns only after the send has completed
MapperSendHoldsStop(m) ==
    pc[m] = "send" =>
        /\ inch'[m].sent = inch[m].sent
        /\ Len(rb'[m].buf) >= Len(rb[m].buf)
        /\ \A k \in Callers :
               (call[k].target = m /\ call[k].pc \in {"send", "flag", "wait"})
                   => call'[k].pc # "ret"

ReducerSendHoldsStop ==
    (scenario = "reducer" /\ rd.pc = "sendOut") =>
        /\ rd'.recvd = rd.recvd
        /\ rd'.pc \in {"sendOut", "select"}
        /\ client.pc = "rstop" => client'.pc = "rstop"

C38_BlockedSendOutlastsStop ==
    [][(\A m \in AllMappers : MapperSendHoldsStop(m)) /\ ReducerSendHoldsStop]_vars

C38_Witness ==
    /\ scenario = "mapper"
    /\ pc[StandaloneId] = "send"
    /\ call["client"].pc = "wait"
    /\ rb[StandaloneId].buf # <<>>

\* C39: OnChannelRemoved runs on the FanIn's worker, so the Stop() that a
\* callback calls on the same FanIn never returns: while the worker is in the
\* callback, the callback's Stop() has not returned
InCallback == scenario = "fanin" /\ fi.cbStops /\ pc[FanInId] = "cb"

C39_CallbackStopNeverReturns ==
    InCallback => call["callback"].pc # "ret"
====
